---- MODULE Spec2Model ----
(***************************************************************************)
(* A model of scanner.py: the sitemap-first URL scanner.                   *)
(*                                                                         *)
(* Strings of the program are TLA+ strings; urlparse, urldefrag, lower,    *)
(* strip and the substring tests are computed character by character.      *)
(* Bodies of sitemap documents are records (the outcome of decoding and of *)
(* ElementTree parsing), network responses are records drawn from small    *)
(* sets.  MAX_PAGES, SITEMAP_CAP, CONCURRENCY and                          *)
(* MAX_MATCH_PAGES_PER_QUERY keep their names and are scaled down so that  *)
(* the caps are reached.                                                   *)
(***************************************************************************)
EXTENDS Integers, Sequences, FiniteSets, Bags, TLC

VARIABLES
    mainpc,             \* position of main()
    inputs,             \* main: the stripped, non-blank input lines
    rp_by_domain,       \* SiteScanner.rp_by_domain
    disc_todo,          \* bases still to be discovered (gather_pages_from_sitemaps, discover_sitemap_urls)
    candidate_sitemaps, \* gather_pages_from_sitemaps.candidate_sitemaps
    gpc,                \* position inside the traversal loop
    to_process,         \* the worklist (a Python list used as a stack)
    seen_sitemaps,
    processed_count,
    pages,
    sm_url,             \* the SitemapURL being fetched
    resp,               \* the network response the pending fetch received
    sm_fetches,         \* history: bag of the URLs fetch_text_bytes was called with in the loop
    page_list,          \* main: list(pages)[:MAX_PAGES]
    filtered,           \* SiteScanner.run: the allowed URLs; total = len(filtered)
    runpc,              \* position of SiteScanner.run
    task,               \* position of each scan_page task, by index in filtered
    task_resp,          \* history: the response each task's request received
    sem,                \* SiteScanner.sem: the free permits
    matches,            \* SiteScanner.matches
    page_fetches,       \* history: bag of the URLs session.get was called with by fetch_html
    completed,          \* asyncio.as_completed: finished tasks not yet awaited by run
    awaited,            \* the number of tasks run has awaited
    rows,               \* the data rows write_results wrote
    call,               \* a function of the module called on its own: its name and arguments
    ret                 \* what that call returned

\* the state of gather_pages_from_sitemaps
gvars == <<disc_todo, candidate_sitemaps, gpc, to_process, seen_sitemaps,
           processed_count, pages, sm_url, resp, sm_fetches>>
\* the state of SiteScanner and its run
pvars == <<filtered, runpc, task, task_resp, sem, matches, page_fetches, completed, awaited>>
\* a call of one function outside a crawl
fvars == <<call, ret>>
vars == <<mainpc, inputs, rp_by_domain, page_list, rows, gvars, pvars, fvars>>

(***************************************************************************)
(* Configuration (scanner.py, CONFIG block).                               *)
(***************************************************************************)
DOMAINS == <<"ex.com">>
SCHEMES == <<"https">>
MAX_PAGES == 3
SITEMAP_CAP == 3
CONCURRENCY == 2
MAX_MATCH_PAGES_PER_QUERY == 1
SCAN_HTML_BODY_TOO == TRUE
BINARY_EXTS == {".jpg", ".jpeg", ".png", ".gif", ".webp", ".svg", ".pdf", ".zip", ".rar",
                ".7z", ".mp4", ".mp3", ".mov", ".avi", ".mkv", ".woff", ".woff2", ".ttf",
                ".eot", ".otf", ".ico"}

\* Bounds of the model: the number of <loc> entries of one sitemap document,
\* the number of lines of a robots.txt
MaxLocs == 2
MaxLines == 2

(***************************************************************************)
(* Strings.                                                                *)
(***************************************************************************)
Range(f) == {f[i] : i \in DOMAIN f}

CharAt(s, i) == SubSeq(s, i, i)

StartsWith(s, p) == Len(p) <= Len(s) /\ SubSeq(s, 1, Len(p)) = p

EndsWith(s, p) == Len(p) <= Len(s) /\ SubSeq(s, Len(s) - Len(p) + 1, Len(s)) = p

\* Python's `p in s`
Contains(s, p) == \E i \in 1..(Len(s) - Len(p) + 1) : SubSeq(s, i, i + Len(p) - 1) = p

\* s.find(p) + 1: the first position of p in s, 0 when absent
Find(s, p) ==
    IF Contains(s, p)
    THEN CHOOSE i \in 1..(Len(s) - Len(p) + 1) :
            /\ SubSeq(s, i, i + Len(p) - 1) = p
            /\ \A j \in 1..(i - 1) : SubSeq(s, j, j + Len(p) - 1) # p
    ELSE 0

UpperChars == <<"A","B","C","D","E","F","G","H","I","J","K","L","M",
                "N","O","P","Q","R","S","T","U","V","W","X","Y","Z">>
LowerChars == <<"a","b","c","d","e","f","g","h","i","j","k","l","m",
                "n","o","p","q","r","s","t","u","v","w","x","y","z">>

LowerChar(c) ==
    IF \E k \in 1..26 : UpperChars[k] = c
    THEN LowerChars[CHOOSE k \in 1..26 : UpperChars[k] = c]
    ELSE c

RECURSIVE Lower(_)
Lower(s) == IF s = "" THEN "" ELSE LowerChar(CharAt(s, 1)) \o Lower(SubSeq(s, 2, Len(s)))

IsSpace(c) == c \in {" ", "\t", "\n", "\r"}

RECURSIVE LStrip(_)
LStrip(s) == IF s # "" /\ IsSpace(CharAt(s, 1)) THEN LStrip(SubSeq(s, 2, Len(s))) ELSE s

RECURSIVE RStrip(_)
RStrip(s) == IF s # "" /\ IsSpace(CharAt(s, Len(s))) THEN RStrip(SubSeq(s, 1, Len(s) - 1)) ELSE s

Strip(s) == RStrip(LStrip(s))

\* the part of s before the first occurrence of one of the characters in cs
RECURSIVE UpTo(_, _)
UpTo(s, cs) ==
    IF s = "" \/ CharAt(s, 1) \in cs THEN ""
    ELSE CharAt(s, 1) \o UpTo(SubSeq(s, 2, Len(s)), cs)

(***************************************************************************)
(* urllib.parse, for the URL shapes of the model: [scheme "://" netloc]    *)
(* path ["?" query] ["#" fragment].                                        *)
(***************************************************************************)
\* s.partition(sep): <<the part before sep, the part after it>>, i the position of sep
PartitionAt(s, i, n) ==
    IF i = 0 THEN <<s, "">> ELSE <<SubSeq(s, 1, i - 1), SubSeq(s, i + n, Len(s))>>

Partition(s, sep) == PartitionAt(s, Find(s, sep), Len(sep))

ParsedUrl(scheme, netloc, path, query, fragment) ==
    [scheme |-> scheme, netloc |-> netloc, path |-> path, query |-> query,
     fragment |-> fragment]

SplitNetloc(scheme, netloc, rest, query, frag) ==
    ParsedUrl(scheme, netloc, SubSeq(rest, Len(netloc) + 1, Len(rest)), query, frag)

SplitScheme(sep, noq, query, frag) ==
    IF sep = 0 THEN ParsedUrl("", "", noq, query, frag)
    ELSE SplitNetloc(Lower(SubSeq(noq, 1, sep - 1)),
                     UpTo(SubSeq(noq, sep + 3, Len(noq)), {"/"}),
                     SubSeq(noq, sep + 3, Len(noq)), query, frag)

SplitQuery(q, frag) == SplitScheme(Find(q[1], "://"), q[1], q[2], frag)

SplitFragment(f) == SplitQuery(Partition(f[1], "?"), f[2])

urlparse(u) == SplitFragment(Partition(u, "#"))

\* urldefrag(u)[0]
urldefrag(u) == Partition(u, "#")[1]

\* any(host == d or host.endswith("." + d) for d in domains)
HostIn(host, domains) ==
    \E i \in DOMAIN domains : host = domains[i] \/ EndsWith(host, "." \o domains[i])

same_domain(url, domains) == HostIn(Lower(urlparse(url).netloc), domains)

HasBinaryExt(path) == \E ext \in BINARY_EXTS : EndsWith(path, ext)

is_binary_url(url) == HasBinaryExt(Lower(urlparse(url).path))

\* parse_qs(urlparse(u).query).keys(): the keys of the non-empty k=v fields
QueryKey(field, eq) ==
    IF eq >= 1 /\ eq < Len(field) THEN {SubSeq(field, 1, eq - 1)} ELSE {}

RECURSIVE QueryKeys(_)
QueryFields(q, field) ==
    QueryKey(field, Find(field, "="))
    \cup QueryKeys(IF Len(field) < Len(q) THEN SubSeq(q, Len(field) + 2, Len(q)) ELSE "")

QueryKeys(q) == IF q = "" THEN {} ELSE QueryFields(q, UpTo(q, {"&"}))

\* is_sitemap_like without the test `"sitemap" in low`
SitemapLikeByExtension(u, low) ==
    \/ EndsWith(low, ".xml") \/ EndsWith(low, ".xml.gz")
    \/ \E k \in QueryKeys(urlparse(u).query) : Contains(Lower(k), "sitemap")

SitemapLike(u, low) ==
    \/ EndsWith(low, ".xml") \/ EndsWith(low, ".xml.gz")
    \/ Contains(low, "sitemap")
    \/ \E k \in QueryKeys(urlparse(u).query) : Contains(Lower(k), "sitemap")

is_sitemap_like(u) == SitemapLike(u, Lower(u))

possible_base_urls(domain) == [i \in DOMAIN SCHEMES |-> SCHEMES[i] \o "://" \o domain]

(***************************************************************************)
(* Bodies.  A text is what decode_text yields: kind "xml" is a well-formed *)
(* document with its root local-name and the texts of its <loc> elements   *)
(* (sitemap/loc under a sitemapindex, url/loc otherwise); "badxml" starts  *)
(* with "<" and does not parse; "nonxml" does not start with "<"; "space"  *)
(* is whitespace only; "lines" is a plain text given by its lines.         *)
(* Bytes are a text with its transfer form: plain, a gzip stream, or a     *)
(* gzip stream cut short.                                                  *)
(***************************************************************************)
Text(kind, root, locs, lines) == [kind |-> kind, root |-> root, locs |-> locs, lines |-> lines]
TextEmpty == Text("empty", "", <<>>, <<>>)
TextGarbage == Text("nonxml", "", <<>>, <<>>)
XmlText(root, locs) == Text("xml", root, locs, <<>>)
LinesText(lines) == Text("lines", "", <<>>, lines)

Bytes(enc, text) == [enc |-> enc, text |-> text]
EmptyBytes == Bytes("plain", TextEmpty)

\* a network response: the request raised (exc), or a status, a content-type and a body
NetResp(exc, status, ctype, raw) == [exc |-> exc, status |-> status, ctype |-> ctype, raw |-> raw]
NetError == NetResp(TRUE, 0, "", EmptyBytes)
NoResp == NetResp(FALSE, 0, "", EmptyBytes)

\* gzip.decompress(raw): "ok", "oserror" (BadGzipFile: not a gzip stream) or
\* "error" (EOFError, zlib.error: not an OSError)
GzipOutcome(raw) ==
    CASE raw.enc = "gzip" -> "ok"
      [] raw.enc = "plain" /\ raw = EmptyBytes -> "ok"
      [] raw.enc = "plain" -> "oserror"
      [] OTHER -> "error"

gzip_decompress(raw) == IF raw.enc = "gzip" THEN Bytes("plain", raw.text) ELSE raw

IsGzFile(url, net) ==
    \/ EndsWith(Lower(url), ".gz")
    \/ Contains(Lower(net.ctype), "application/gzip")
    \/ Contains(Lower(net.ctype), "application/x-gzip")

Fetched(status, raw) == [status |-> status, raw |-> raw]

\* Decompressed with every failure of gzip.decompress answered by an empty body
DecompressedOrEmpty(raw, outcome) ==
    IF outcome = "ok" THEN Fetched(200, gzip_decompress(raw)) ELSE Fetched(0, EmptyBytes)

\* with suppress(OSError): raw = gzip.decompress(raw), inside the try of fetch_text_bytes
Decompressed(raw, outcome) ==
    CASE outcome = "ok" -> Fetched(200, gzip_decompress(raw))
      [] outcome = "oserror" -> Fetched(200, raw)
      [] OTHER -> Fetched(0, EmptyBytes)

\* fetch_text_bytes: the (status, raw) it returns for the response net to a GET of url
fetch_text_bytes(url, net) ==
    IF net.exc THEN Fetched(0, EmptyBytes)
    ELSE IF net.status # 200 THEN Fetched(net.status, EmptyBytes)
    ELSE IF IsGzFile(url, net) THEN Decompressed(net.raw, GzipOutcome(net.raw))
    ELSE Fetched(200, net.raw)

\* decode_text: utf-8 with errors ignored; a gzip stream decodes to control characters
decode_text(raw) ==
    IF raw = EmptyBytes THEN TextEmpty
    ELSE IF raw.enc = "plain" THEN raw.text
    ELSE TextGarbage

\* xml_text.strip().startswith("<")
LooksLikeXml(text) == text.kind \in {"xml", "badxml"}

StripAll(strs) == [i \in DOMAIN strs |-> Strip(strs[i])]

\* lines 252-268: the <loc> texts of a sitemapindex, of a urlset
SplitLocs(root, urls) ==
    IF Lower(root) = "sitemapindex"
    THEN <<urls, (<<>>)>>
    ELSE <<SelectSeq(urls, LAMBDA u : is_sitemap_like(u)),
           SelectSeq(urls, LAMBDA u : ~is_sitemap_like(u))>>

\* parse_sitemap_xml reading the <loc> texts of a document that is not well-formed
parse_sitemap_xml_lenient(text) ==
    IF text.kind \in {"empty", "space"} THEN <<(<<>>), (<<>>)>>
    ELSE SplitLocs(text.root, StripAll(SelectSeq(text.locs, LAMBDA t : t # "")))

\* parse_sitemap_xml: <<sitemap_urls, page_urls>>
parse_sitemap_xml(text) ==
    IF text.kind \in {"empty", "space"} THEN <<(<<>>), (<<>>)>>
    ELSE IF text.kind # "xml" THEN <<(<<>>), (<<>>)>>
    ELSE SplitLocs(text.root, StripAll(SelectSeq(text.locs, LAMBDA t : t # "")))

\* text.splitlines()
splitlines(text) == text.lines

\* NamedSitemaps comparing the keyword as written, without line.lower()
NamedSitemapsCaseSensitive(lines) ==
    {Strip(Partition(lines[i], ":")[2]) :
        i \in {j \in DOMAIN lines : StartsWith(lines[j], "sitemap:")}}

\* line.split(":", 1)[1].strip() of the lines starting with "sitemap:"
NamedSitemaps(lines) ==
    {Strip(Partition(lines[i], ":")[2]) :
        i \in {j \in DOMAIN lines : StartsWith(Lower(lines[j]), "sitemap:")}}

RobotsText(got) ==
    IF got.status = 200 /\ got.raw # EmptyBytes THEN splitlines(decode_text(got.raw)) ELSE <<>>

\* discover_sitemap_urls, one base: the URLs added for the robots.txt response net
RobotsSitemaps(base, net) ==
    {sm \in NamedSitemaps(RobotsText(fetch_text_bytes(base \o "/robots.txt", net))) : sm # ""}
    \cup {base \o "/sitemap.xml"}

\* discover_sitemap_urls(domain), nets the robots.txt responses, one per base
discover_sitemap_urls(domain, nets) ==
    UNION {RobotsSitemaps(possible_base_urls(domain)[i], nets[i]) : i \in DOMAIN SCHEMES}

\* DefragAll without urldefrag: the URLs as listed
DefragNone(urls) == urls

DefragAll(urls) == [i \in DOMAIN urls |-> urldefrag(urls[i])]

\* the URLs the page-collecting loop adds, in order: those passing its filter, defragmented
PageCandidates(url_pages) ==
    DefragAll(SelectSeq(url_pages, LAMBDA u : same_domain(u, DOMAINS) /\ ~is_binary_url(u)))

\* the page-collecting loop of gather_pages_from_sitemaps, with its break
RECURSIVE CollectPages(_, _)
\* AddPage without the break at MAX_PAGES
AddPageNoBreak(added, cands) == CollectPages(added, Tail(cands))

AddPage(added, cands) ==
    IF Cardinality(added) >= MAX_PAGES THEN added ELSE CollectPages(added, Tail(cands))

CollectPages(pgs, cands) ==
    IF cands = <<>> THEN pgs ELSE AddPage(pgs \cup {Head(cands)}, cands)

\* the enqueue loop of gather_pages_from_sitemaps
EnqueueNested(stack, nested, seen) == stack \o SelectSeq(nested, LAMBDA u : u \notin seen)

(***************************************************************************)
(* The inputs of the model: what the network may answer.                   *)
(***************************************************************************)
\* texts of <loc> elements: of sitemap/loc in a sitemapindex, of url/loc in a urlset
IndexLocs == {"https://ex.com/sitemap.xml", "https://ex.com/s2.xml.gz", "https://ex.com/a"}
UrlLocs == {"https://ex.com/a", "https://ex.com/c", "https://ex.com/d"}
\* url/loc texts the traversal rejects: a binary extension, a host out of scope
RejectedLocs == {"https://ex.com/i.JPG", "https://badex.com/c"}
\* url/loc lists with a fragment, a subdomain and a page whose URL holds "sitemap"
MixedLocLists == {<<"https://ex.com/a#t", "https://ex.com/a">>,
                  <<"https://w.ex.com/b", "https://ex.com/sitemap-info">>}

Lists(S, n) == UNION {[1..k -> S] : k \in 0..n}

SitemapTexts ==
    {XmlText("sitemapindex", locs) : locs \in Lists(IndexLocs, MaxLocs)}
    \cup {XmlText("urlset", locs) : locs \in Lists(UrlLocs, MaxLocs)}
    \cup {XmlText("urlset", <<r, u>>) : r \in RejectedLocs, u \in {"https://ex.com/a#t"}}
    \cup {XmlText("urlset", locs) : locs \in MixedLocLists}

\* the bodies served with a gzip indication or as gzip streams
GzTexts == {XmlText("urlset", <<"https://w.ex.com/b">>),
            Text("badxml", "urlset", <<"https://ex.com/c">>, <<>>)}

SitemapResponses ==
    {NetError,
     NetResp(FALSE, 404, "text/xml", Bytes("plain", XmlText("urlset", <<"https://ex.com/c">>))),
     NetResp(FALSE, 200, "text/xml", EmptyBytes),
     NetResp(FALSE, 200, "text/xml", Bytes("plain", Text("space", "", <<>>, <<>>))),
     NetResp(FALSE, 200, "text/html", Bytes("plain", TextGarbage))}
    \cup {NetResp(FALSE, 200, "text/xml", Bytes("plain", t)) : t \in SitemapTexts}
    \cup {NetResp(FALSE, 200, ct, Bytes(enc, t)) :
            ct \in {"text/xml", "Application/X-GZIP"}, enc \in {"plain", "gzip"}, t \in GzTexts}
    \cup {NetResp(FALSE, 200, "text/xml", Bytes("truncgz", TextEmpty))}

RobotsLines == {"Sitemap: https://ex.com/s2.xml.gz", "SITEMAP:https://ex.com/r",
                "sitemap: ", "Disallow: /b"}

RobotsResponses ==
    {NetError, NetResp(FALSE, 404, "text/html", Bytes("plain", TextGarbage)),
     NetResp(FALSE, 200, "text/plain", EmptyBytes)}
    \cup {NetResp(FALSE, 200, "text/plain", Bytes("plain", LinesText(ls))) :
            ls \in Lists(RobotsLines, MaxLines) \ {<<>>}}

\* list(s) of a Python set s: its elements in some order
Orders(S) == {q \in [1..Cardinality(S) -> S] : Range(q) = S}

(***************************************************************************)
(* Phase 1: gather_pages_from_sitemaps.                                    *)
(***************************************************************************)
\* discover_sitemap_urls for the next base: the robots.txt fetch returned net
Discover(net) ==
    /\ mainpc = "gather" /\ gpc = "discover" /\ disc_todo # <<>>
    /\ candidate_sitemaps' = candidate_sitemaps \cup RobotsSitemaps(Head(disc_todo), net)
    /\ disc_todo' = Tail(disc_todo)
    /\ UNCHANGED <<gpc, to_process, seen_sitemaps, processed_count, pages, sm_url, resp,
                   sm_fetches>>
    /\ UNCHANGED <<fvars, mainpc, page_list, inputs, rp_by_domain, rows, pvars>>

\* to_process = list(candidate_sitemaps); seen_sitemaps = set(); processed_count = 0
StartTraversal(order) ==
    /\ mainpc = "gather" /\ gpc = "discover" /\ disc_todo = <<>>
    /\ to_process' = order
    /\ gpc' = "head"
    /\ UNCHANGED <<disc_todo, candidate_sitemaps, seen_sitemaps, processed_count, pages,
                   sm_url, resp, sm_fetches>>
    /\ UNCHANGED <<fvars, mainpc, page_list, inputs, rp_by_domain, rows, pvars>>

\* LoopCondition without the test processed_count < SITEMAP_CAP
LoopConditionNoCap ==
    /\ to_process # <<>>
    /\ Cardinality(pages) < MAX_PAGES

LoopCondition ==
    /\ to_process # <<>>
    /\ Cardinality(pages) < MAX_PAGES
    /\ processed_count < SITEMAP_CAP

\* Pop without the test `if sm_url in seen_sitemaps: continue`
PopNoSeenCheck ==
    /\ mainpc = "gather" /\ gpc = "head" /\ LoopCondition
    /\ to_process' = SubSeq(to_process, 1, Len(to_process) - 1)
    /\ seen_sitemaps' = seen_sitemaps \cup {to_process[Len(to_process)]}
    /\ processed_count' = processed_count + 1
    /\ sm_url' = to_process[Len(to_process)]
    /\ sm_fetches' = sm_fetches (+) SetToBag({to_process[Len(to_process)]})
    /\ gpc' = "fetch"
    /\ UNCHANGED <<disc_todo, candidate_sitemaps, pages, resp>>
    /\ UNCHANGED <<fvars, mainpc, page_list, inputs, rp_by_domain, rows, pvars>>

\* one pass over lines 296-303: pop, skip a seen URL, else mark, count and issue the GET
Pop ==
    /\ mainpc = "gather" /\ gpc = "head" /\ LoopCondition
    /\ LET u == to_process[Len(to_process)]
       IN  /\ to_process' = SubSeq(to_process, 1, Len(to_process) - 1)
           /\ IF u \in seen_sitemaps
              THEN UNCHANGED <<gpc, seen_sitemaps, processed_count, sm_url, sm_fetches>>
              ELSE /\ seen_sitemaps' = seen_sitemaps \cup {u}
                   /\ processed_count' = processed_count + 1
                   /\ sm_url' = u
                   /\ sm_fetches' = sm_fetches (+) SetToBag({u})
                   /\ gpc' = "fetch"
    /\ UNCHANGED <<disc_todo, candidate_sitemaps, pages, resp>>
    /\ UNCHANGED <<fvars, mainpc, page_list, inputs, rp_by_domain, rows, pvars>>

\* return pages; main: page_list = list(pages)[:MAX_PAGES]
Return(order) ==
    /\ mainpc = "gather" /\ gpc = "head" /\ ~LoopCondition
    /\ page_list' = SubSeq(order, 1, IF Len(order) < MAX_PAGES THEN Len(order) ELSE MAX_PAGES)
    /\ mainpc' = "run"
    /\ gpc' = "returned"
    /\ UNCHANGED <<disc_todo, candidate_sitemaps, to_process, seen_sitemaps, processed_count,
                   pages, sm_url, resp, sm_fetches>>
    /\ UNCHANGED <<fvars, inputs, rp_by_domain, rows, pvars>>

\* the awaited fetch_text_bytes receives the response net
Receive(net) ==
    /\ mainpc = "gather" /\ gpc = "fetch"
    /\ resp' = net
    /\ gpc' = "got"
    /\ UNCHANGED <<disc_todo, candidate_sitemaps, to_process, seen_sitemaps, processed_count,
                   pages, sm_url, sm_fetches>>
    /\ UNCHANGED <<fvars, mainpc, page_list, inputs, rp_by_domain, rows, pvars>>

Parsed(parsed) == <<parsed[1], PageCandidates(parsed[2])>>

\* lines 313-332, for the decoded text
TextContribution(text) ==
    IF ~LooksLikeXml(text) THEN <<(<<>>), (<<>>)>> ELSE Parsed(parse_sitemap_xml(text))

\* lines 304-332, for what fetch_text_bytes returned
FetchedContribution(got) ==
    IF got.status # 200 \/ got.raw = EmptyBytes THEN <<(<<>>), (<<>>)>>
    ELSE TextContribution(decode_text(got.raw))

\* what the document contributes (lines 304-332): <<nested sitemap URLs, page URLs to add>>
Contribution(url, net) == FetchedContribution(fetch_text_bytes(url, net))

\* every URL the worklist can hold
SitemapURLs ==
    IndexLocs
    \cup {u \in UrlLocs \cup RejectedLocs \cup UNION {Range(l) : l \in MixedLocLists} :
            is_sitemap_like(u)}
    \cup UNION {RobotsSitemaps(b, n) : b \in Range(possible_base_urls(DOMAINS[1])),
                                       n \in RobotsResponses}

\* Contribution, computed once per (url, response)
ContributionTable == [u \in SitemapURLs |-> [n \in SitemapResponses |-> Contribution(u, n)]]

\* the loop body after the fetch, c the contribution of the document
Contribute(c) ==
    /\ to_process' = EnqueueNested(to_process, c[1], seen_sitemaps)
    /\ pages' = CollectPages(pages, c[2])

\* lines 304-340 of the loop body
Process ==
    /\ mainpc = "gather" /\ gpc = "got"
    /\ Contribute(ContributionTable[sm_url][resp])
    /\ gpc' = "head"
    /\ resp' = NoResp
    /\ sm_url' = ""
    /\ UNCHANGED <<disc_todo, candidate_sitemaps, seen_sitemaps, processed_count, sm_fetches>>
    /\ UNCHANGED <<fvars, mainpc, page_list, inputs, rp_by_domain, rows, pvars>>

(***************************************************************************)
(* normalize_variants and the pattern set.                                 *)
(***************************************************************************)
ReplaceAt(s, i, n, new) ==
    IF i = 0 THEN s ELSE SubSeq(s, 1, i - 1) \o new \o SubSeq(s, i + n, Len(s))

\* s.replace(old, new, 1)
Replace1(s, old, new) == IF old = "" THEN s ELSE ReplaceAt(s, Find(s, old), Len(old), new)

HtmlEntities == <<(<<"&amp;", "&">>), (<<"&lt;", "<">>), (<<"&gt;", ">">>),
                  (<<"&quot;", "\"">>), (<<"&#39;", "'">>)>>

\* html.unescape, for the entities above
RECURSIVE html_unescape(_)
html_unescape(s) ==
    IF s = "" THEN ""
    ELSE IF \E k \in DOMAIN HtmlEntities : StartsWith(s, HtmlEntities[k][1])
    THEN LET k == CHOOSE k \in DOMAIN HtmlEntities : StartsWith(s, HtmlEntities[k][1])
         IN  HtmlEntities[k][2]
             \o html_unescape(SubSeq(s, Len(HtmlEntities[k][1]) + 1, Len(s)))
    ELSE CharAt(s, 1) \o html_unescape(SubSeq(s, 2, Len(s)))

\* the characters of the model that urllib.parse.quote encodes with the safe set of line 138
Quoted == <<(<<" ", "%20">>), (<<"\"", "%22">>), (<<"<", "%3C">>), (<<">", "%3E">>)>>

RECURSIVE quote(_)
quote(s) ==
    IF s = "" THEN ""
    ELSE (IF \E k \in DOMAIN Quoted : Quoted[k][1] = CharAt(s, 1)
          THEN Quoted[CHOOSE k \in DOMAIN Quoted : Quoted[k][1] = CharAt(s, 1)][2]
          ELSE CharAt(s, 1))
         \o quote(SubSeq(s, 2, Len(s)))

\* lines 126-133: the variants derived from the parsed, defragmented string
WithoutScheme(str, p) ==
    IF p.scheme # "" THEN {Replace1(str, p.scheme \o "://", "")} ELSE {}

WithoutWww(s_defrag, p) == Replace1(s_defrag, p.netloc, SubSeq(p.netloc, 5, Len(p.netloc)))

\* NoWwwVariants without lines 132-133: the scheme prefix is kept
NoWwwVariantsKeepScheme(no_www, p) == {no_www}

NoWwwVariants(no_www, p) == {no_www} \cup WithoutScheme(no_www, p)

DerivedVariants(s_defrag, p) ==
    IF p.netloc = "" THEN {}
    ELSE WithoutScheme(s_defrag, p)
         \cup (IF StartsWith(p.netloc, "www.")
               THEN NoWwwVariants(WithoutWww(s_defrag, p), p) ELSE {})

\* lines 121-133
DefragVariants(s_defrag) == {s_defrag} \cup DerivedVariants(s_defrag, urlparse(s_defrag))

\* lines 116-133
PlainVariants(s, s_unesc) == {s, s_unesc} \cup DefragVariants(urldefrag(s_unesc))

\* lines 135-142: the URL-encoded forms are added, the short variants dropped
EncodedAndFiltered(variants) == {v \in variants \cup {quote(w) : w \in variants} : Len(v) >= 6}

VariantsOfStripped(s) ==
    IF s = "" THEN {} ELSE EncodedAndFiltered(PlainVariants(s, html_unescape(s)))

normalize_variants(target) == VariantsOfStripped(Strip(target))

\* inputs with a scheme, a host starting with www. and a fragment: to be trimmed,
\* with variants shorter than 6 characters, with a character to encode, with an entity
WwwInputs == {"https://www.example.com/a/b#frag", "  https://www.ex.com/a#f ",
              "a://www.b#c", "http://www.ab.c#x", "https://www.ex.com/a b#f",
              "https://www.ex.com/a?x=1&amp;y#f"}

\* normalize_variants(target)
CallNormalize(target) ==
    /\ mainpc = "call"
    /\ call = <<>>
    /\ call' = <<"normalize_variants", target>>
    /\ ret' = normalize_variants(target)
    /\ UNCHANGED <<mainpc, inputs, rp_by_domain, page_list, rows, gvars, pvars>>

\* the input lines of the model
InputStrings == {"https://www.ex.com/a#f", "ex.com/a", "/b"}
InputLists == {<<"https://www.ex.com/a#f">>, <<"https://www.ex.com/a#f", "ex.com/a">>,
               <<"/b", "https://www.ex.com/a#f">>, <<"ex.com/a", "ex.com/a">>}

\* rebuild_input_variant_map
VariantMap == [u \in InputStrings |-> normalize_variants(u)]

\* main: all_patterns
AllPatterns(ins) == UNION {VariantMap[ins[i]] : i \in DOMAIN ins}

(***************************************************************************)
(* Matcher.                                                                *)
(***************************************************************************)
\* the fallback mode of find_in (lines 173-178)
find_in(patterns, text) ==
    IF text = "" THEN {} ELSE {p \in patterns : Contains(text, p)}

\* ahocorasick.Automaton after add_word(pat) for every pattern and make_automaton():
\* the nodes of the trie are the prefixes of the patterns
Prefixes(p) == {SubSeq(p, 1, k) : k \in 0..Len(p)}

TrieNodes(patterns) == UNION {Prefixes(p) : p \in patterns}

ProperSuffixes(node) == {SubSeq(node, k, Len(node)) : k \in 2..(Len(node) + 1)}

Longest(S) == CHOOSE x \in S : \A y \in S : Len(y) <= Len(x)

\* the failure link of a node: its longest proper suffix that is a node
Fail(nodes, node) == Longest(ProperSuffixes(node) \cap nodes)

\* the words the automaton reports at a node: only the word that ends the node itself
AhoOutputsOwnWord(patterns, nodes, node) ==
    IF node \in patterns THEN {node} ELSE {}

\* the words the automaton reports at a node: its own and those along the failure links
RECURSIVE AhoOutputs(_, _, _)
AhoOutputs(patterns, nodes, node) ==
    IF node = "" THEN {}
    ELSE (IF node \in patterns THEN {node} ELSE {})
         \cup AhoOutputs(patterns, nodes, Fail(nodes, node))

\* the transition on character c, following failure links until c can be read
RECURSIVE AhoStep(_, _, _)
AhoStep(nodes, node, c) ==
    IF (node \o c) \in nodes THEN node \o c
    ELSE IF node = "" THEN ""
    ELSE AhoStep(nodes, Fail(nodes, node), c)

\* Automaton.iter(text): the words reported while the text is read from node on
RECURSIVE AhoIter(_, _, _, _)
AhoVisit(patterns, nodes, next, text) ==
    AhoOutputs(patterns, nodes, next)
    \cup AhoIter(patterns, nodes, next, SubSeq(text, 2, Len(text)))

AhoIter(patterns, nodes, node, text) ==
    IF text = "" THEN {}
    ELSE AhoVisit(patterns, nodes, AhoStep(nodes, node, CharAt(text, 1)), text)

\* find_in in the automaton mode (lines 166-172); an automaton without words is
\* falsy, so that `self.use_aho and self.aho` selects the fallback
find_in_aho(patterns, text) ==
    IF text = "" THEN {}
    ELSE IF patterns = {} THEN find_in(patterns, text)
    ELSE AhoIter(patterns, TrieNodes(patterns), "", text)

\* bound: the length of the texts find_in is called with
MaxTextLen == 4

\* the texts over the letters a and b of length up to n
RECURSIVE TextsUpTo(_)
TextsUpTo(n) ==
    IF n = 0 THEN {""} ELSE {""} \cup {t \o c : t \in TextsUpTo(n - 1), c \in {"a", "b"}}

\* patterns that are prefixes, suffixes and infixes of one another
PatternStrings == {"b", "ab", "ba", "bab", "abab"}

\* Matcher(patterns).find_in(text), with the ahocorasick module and without it
CallFindIn(patterns, text) ==
    /\ mainpc = "call"
    /\ call = <<>>
    /\ call' = <<"find_in", patterns, text>>
    /\ ret' = [aho |-> find_in_aho(patterns, text), fallback |-> find_in(patterns, text)]
    /\ UNCHANGED <<mainpc, inputs, rp_by_domain, page_list, rows, gvars, pvars>>

\* the domains discover_sitemap_urls is called with
CallDomains == {"ex.com", "shop.ex.org"}

\* discover_sitemap_urls(session, domain), the robots.txt requests answered by nets
CallDiscover(domain, nets) ==
    /\ mainpc = "call"
    /\ call = <<>>
    /\ call' = <<"discover_sitemap_urls", domain, nets>>
    /\ ret' = discover_sitemap_urls(domain, nets)
    /\ UNCHANGED <<mainpc, inputs, rp_by_domain, page_list, rows, gvars, pvars>>

(***************************************************************************)
(* robots.txt rulesets: urllib.robotparser.RobotFileParser as used by      *)
(* SiteScanner.init and SiteScanner.allowed.                               *)
(***************************************************************************)
\* RobotFileParser(): nothing read; load is history: how read() ended
NewParser == [read |-> FALSE, allow_all |-> FALSE, disallow_all |-> FALSE,
              disallow |-> {}, load |-> "none"]

\* RobotFileParser.parse: the Disallow paths of the groups of User-agent: *
RECURSIVE DisallowedPaths(_, _)
RobotsLine(lines, in_group, key, val) ==
    IF key = "user-agent"
    THEN DisallowedPaths(Tail(lines), val = "*")
    ELSE (IF key = "disallow" /\ in_group /\ val # "" THEN {val} ELSE {})
         \cup DisallowedPaths(Tail(lines), in_group)

RobotsField(lines, in_group, f) ==
    RobotsLine(lines, in_group, Lower(Strip(f[1])), Strip(f[2]))

DisallowedPaths(lines, in_group) ==
    IF lines = <<>> THEN {}
    ELSE RobotsField(lines, in_group, Partition(Strip(Head(lines)), ":"))

\* rp.read() under suppress(Exception), for the answer net of urlopen
robots_read(net) ==
    IF net.exc THEN [NewParser EXCEPT !.load = "failed"]
    ELSE IF net.status \in {401, 403}
         THEN [NewParser EXCEPT !.disallow_all = TRUE, !.load = "http"]
    ELSE IF net.status >= 400 /\ net.status < 500
         THEN [NewParser EXCEPT !.allow_all = TRUE, !.load = "http"]
    ELSE IF net.status # 200 THEN [NewParser EXCEPT !.load = "failed"]
    ELSE IF net.raw.enc # "plain" THEN [NewParser EXCEPT !.load = "failed"]
    ELSE [NewParser EXCEPT !.read = TRUE, !.load = "ok",
                           !.disallow = DisallowedPaths(splitlines(net.raw.text), FALSE)]

PathAllowed(rp, path) == \A d \in rp.disallow : ~StartsWith(IF path = "" THEN "/" ELSE path, d)

\* RobotFileParser.can_fetch(USER_AGENT, url)
can_fetch(rp, url) ==
    IF rp.disallow_all THEN FALSE
    ELSE IF rp.allow_all THEN TRUE
    ELSE IF ~rp.read THEN FALSE
    ELSE PathAllowed(rp, urlparse(url).path)

\* next((d for d in self.domains if host == d or host.endswith("." + d)), None)
DomainOf(host) ==
    {i \in DOMAIN DOMAINS :
        /\ HostIn(host, <<DOMAINS[i]>>)
        /\ \A j \in 1..(i - 1) : ~HostIn(host, <<DOMAINS[j]>>)}

RobotsAllow(url, doms) ==
    \A i \in doms : DOMAINS[i] \in DOMAIN rp_by_domain =>
                        can_fetch(rp_by_domain[DOMAINS[i]], url)

\* allowed without the robots ruleset
allowedWithoutRobots(url) == same_domain(url, DOMAINS) /\ ~is_binary_url(url)

\* SiteScanner.allowed
allowed(url) ==
    IF ~same_domain(url, DOMAINS) THEN FALSE
    ELSE IF is_binary_url(url) THEN FALSE
    ELSE RobotsAllow(url, DomainOf(Lower(urlparse(url).netloc)))

InitRobotsLines == {"User-agent: *", "Disallow: /b"}

\* what urlopen(robots_url) may answer in SiteScanner.init
InitRobotsResponses ==
    {NetError, NetResp(FALSE, 403, "text/html", EmptyBytes),
     NetResp(FALSE, 404, "text/html", EmptyBytes),
     NetResp(FALSE, 500, "text/html", EmptyBytes),
     NetResp(FALSE, 200, "text/plain", Bytes("truncgz", TextEmpty))}
    \cup {NetResp(FALSE, 200, "text/plain", Bytes("plain", LinesText(ls))) :
            ls \in Lists(InitRobotsLines, MaxLines)}

(***************************************************************************)
(* Pages: what a page request may receive, and the scan of a page.         *)
(***************************************************************************)
\* a page body: the decoded markup and the href values of its <a href> elements
Body(html, hrefs) == [html |-> html, hrefs |-> hrefs]

PageResp(exc, status, body) == [exc |-> exc, status |-> status, body |-> body]
NoPageResp == PageResp(FALSE, 0, Body("", <<>>))

PageBodies == {Body("<p>hi</p>", <<>>),
               Body("<a href=\"/a\">x</a>", <<"/a">>),
               Body("<a href=\"https://www.ex.com/a#f\">", <<"https://www.ex.com/a#f">>),
               Body("<a href=\"http://[\">", <<"http://[">>),
               Body("", <<>>)}

PageResponses ==
    {PageResp(TRUE, 0, Body("", <<>>)),
     PageResp(FALSE, 404, Body("<a href=\"/a\">x</a>", <<"/a">>))}
    \cup {PageResp(FALSE, 200, b) : b \in PageBodies}

\* the page URLs the traversal can return, in sorted() order
PageOrder == <<"https://ex.com/a", "https://ex.com/c", "https://w.ex.com/b">>
PageURLs == Range(PageOrder)

\* fetch_html returning the text of every answer, whatever its status
fetch_html_any_status(r) == IF r.exc THEN "" ELSE r.body.html

\* fetch_html: the text it returns for the response r
fetch_html(r) == IF r.exc \/ r.status # 200 THEN "" ELSE r.body.html

\* urljoin(base, href) raises ValueError (Invalid IPv6 URL)
UrlJoinRaises(href) == Contains(href, "[") /\ ~Contains(href, "]")

JoinRoot(p, href) ==
    p.scheme \o "://" \o p.netloc \o (IF StartsWith(href, "/") THEN "" ELSE "/") \o href

\* urljoin(base, href) for an absolute href, a rooted path, a relative path
urljoin(base, href) == IF Contains(href, "://") THEN href ELSE JoinRoot(urlparse(base), href)

RECURSIVE Join(_, _)
Join(sep, strs) ==
    IF strs = <<>> THEN ""
    ELSE IF Len(strs) = 1 THEN strs[1]
    ELSE strs[1] \o sep \o Join(sep, Tail(strs))

\* the loop of extract_hrefs over the hrefs it keeps
JoinAll(base_url, kept) ==
    [raised |-> \E i \in DOMAIN kept : UrlJoinRaises(kept[i]),
     hrefs  |-> [i \in DOMAIN kept |->
                    IF UrlJoinRaises(kept[i]) THEN ""
                    ELSE urldefrag(urljoin(base_url, kept[i]))]]

\* SiteScanner.extract_hrefs: the list, or raised
extract_hrefs(base_url, body) ==
    JoinAll(base_url, SelectSeq(body.hrefs, LAMBDA h : h # ""))

Blobs(hrefs, html) ==
    (IF hrefs # <<>> THEN <<Join("\n", hrefs)>> ELSE <<>>)
    \o (IF SCAN_HTML_BODY_TOO THEN <<html>> ELSE <<>>)

ScanBlobs(patterns, html, ex) ==
    [raised |-> ex.raised,
     found  |-> IF ex.raised THEN {} ELSE find_in(patterns, Join("\n", Blobs(ex.hrefs, html)))]

\* scan_page, lines 431-443: the patterns found on the page, or raised
ScanPage(patterns, url, body) == ScanBlobs(patterns, body.html, extract_hrefs(url, body))

\* ScanPage for the patterns of all inputs, computed once per (url, body)
ScanTable ==
    [u \in PageURLs |-> [b \in PageBodies |->
        ScanPage(UNION {VariantMap[i] : i \in InputStrings}, u, b)]]

\* AddMatches without the test len(self.matches[pat]) < MAX_MATCH_PAGES_PER_QUERY
AddMatchesNoCap(m, found, url) ==
    [p \in DOMAIN m |-> IF p \in found THEN m[p] \cup {url} ELSE m[p]]

\* scan_page, lines 444-446
AddMatches(m, found, url) ==
    [p \in DOMAIN m |->
        IF p \in found /\ Cardinality(m[p]) < MAX_MATCH_PAGES_PER_QUERY
        THEN m[p] \cup {url} ELSE m[p]]

(***************************************************************************)
(* main, SiteScanner.init and Phase 2: SiteScanner.run and its tasks.      *)
(***************************************************************************)
\* SiteScanner.init: the robots.txt of each domain is read; outs are urlopen's answers
ScannerInit(outs) ==
    /\ mainpc = "init"
    /\ rp_by_domain' = [d \in Range(DOMAINS) |->
                          robots_read(outs[CHOOSE i \in DOMAIN DOMAINS : DOMAINS[i] = d])]
    /\ mainpc' = "gather"
    /\ UNCHANGED <<fvars, inputs, page_list, rows, gvars, pvars>>

\* gather_pages_from_sitemaps returned pl to main (its traversal not followed step by step)
Gathered(pl) ==
    /\ mainpc = "gather" /\ gpc = "idle"
    /\ page_list' = pl
    /\ mainpc' = "run"
    /\ UNCHANGED <<fvars, inputs, rp_by_domain, rows, gvars, pvars>>

\* RunStart with the robots rulesets loaded when run starts, not in init
RunStartLoadingRobots ==
    /\ mainpc = "run" /\ runpc = "idle"
    /\ rp_by_domain' = [d \in Range(DOMAINS) |-> robots_read(NetResp(FALSE, 404, "", EmptyBytes))]
    /\ filtered' = SelectSeq(page_list, LAMBDA u : same_domain(u, DOMAINS) /\ ~is_binary_url(u))
    /\ IF filtered' = <<>>
       THEN runpc' = "returned" /\ UNCHANGED <<task, task_resp>>
       ELSE /\ runpc' = "awaiting"
            /\ task' = [t \in DOMAIN filtered' |-> "created"]
            /\ task_resp' = [t \in DOMAIN filtered' |-> NoPageResp]
    /\ UNCHANGED <<fvars, mainpc, inputs, page_list, rows, gvars,
                   sem, matches, page_fetches, completed, awaited>>

\* SiteScanner.run up to its first await: filter, count, create the tasks
RunStart ==
    /\ mainpc = "run" /\ runpc = "idle"
    /\ filtered' = SelectSeq(page_list, LAMBDA u : allowed(u))
    /\ IF filtered' = <<>>
       THEN runpc' = "returned" /\ UNCHANGED <<task, task_resp>>
       ELSE /\ runpc' = "awaiting"
            /\ task' = [t \in DOMAIN filtered' |-> "created"]
            /\ task_resp' = [t \in DOMAIN filtered' |-> NoPageResp]
    /\ UNCHANGED <<fvars, mainpc, inputs, rp_by_domain, page_list, rows, gvars,
                   sem, matches, page_fetches, completed, awaited>>

TaskIds == DOMAIN task

\* TaskStart with fetch_html not waiting for a permit
TaskStartNoSemaphore(t) ==
    /\ mainpc = "run" /\ task[t] = "created"
    /\ \A j \in 1..(t - 1) : task[j] # "created"
    /\ IF ~allowed(filtered[t])
       THEN /\ task' = [task EXCEPT ![t] = "done"]
            /\ completed' = Append(completed, t)
            /\ UNCHANGED sem
       ELSE /\ sem' = sem - 1 /\ task' = [task EXCEPT ![t] = "sleep"]
            /\ UNCHANGED completed
    /\ UNCHANGED <<fvars, mainpc, inputs, rp_by_domain, page_list, rows, gvars,
                   filtered, runpc, task_resp, matches, page_fetches, awaited>>

\* scan_page starts: the allowed check, then fetch_html up to its first suspension
TaskStart(t) ==
    /\ mainpc = "run" /\ task[t] = "created"
    /\ \A j \in 1..(t - 1) : task[j] # "created"
    /\ IF ~allowed(filtered[t])
       THEN /\ task' = [task EXCEPT ![t] = "done"]
            /\ completed' = Append(completed, t)
            /\ UNCHANGED sem
       ELSE /\ IF sem > 0
               THEN sem' = sem - 1 /\ task' = [task EXCEPT ![t] = "sleep"]
               ELSE UNCHANGED sem /\ task' = [task EXCEPT ![t] = "acquire"]
            /\ UNCHANGED completed
    /\ UNCHANGED <<fvars, mainpc, inputs, rp_by_domain, page_list, rows, gvars,
                   filtered, runpc, task_resp, matches, page_fetches, awaited>>

\* a task waiting in sem.acquire() obtains a permit
TaskAcquire(t) ==
    /\ mainpc = "run" /\ task[t] = "acquire" /\ sem > 0
    /\ \A j \in 1..(t - 1) : task[j] # "acquire"
    /\ sem' = sem - 1
    /\ task' = [task EXCEPT ![t] = "sleep"]
    /\ UNCHANGED <<fvars, mainpc, inputs, rp_by_domain, page_list, rows, gvars,
                   filtered, runpc, task_resp, matches, page_fetches, completed, awaited>>

\* the politeness delay is over: session.get(url) is issued
TaskRequest(t) ==
    /\ mainpc = "run" /\ task[t] = "sleep"
    /\ task' = [task EXCEPT ![t] = "request"]
    /\ page_fetches' = page_fetches (+) SetToBag({filtered[t]})
    /\ UNCHANGED <<fvars, mainpc, inputs, rp_by_domain, page_list, rows, gvars,
                   filtered, runpc, task_resp, sem, matches, completed, awaited>>

\* the request ends with r: fetch_html releases the permit and returns, scan_page
\* scans the text and records the matches (lines 403-410, 428-446)
Scanned(t, scan) ==
    IF scan.raised
    THEN task' = [task EXCEPT ![t] = "failed"] /\ UNCHANGED matches
    ELSE /\ task' = [task EXCEPT ![t] = "done"]
         /\ matches' = AddMatches(matches, scan.found \cap DOMAIN matches, filtered[t])

\* TaskResponse with the permit released only when the request returned a text
TaskResponseKeepsPermit(t, r) ==
    /\ mainpc = "run" /\ task[t] = "request"
    /\ sem' = (IF fetch_html(r) = "" THEN sem ELSE sem + 1)
    /\ task_resp' = [task_resp EXCEPT ![t] = r]
    /\ completed' = Append(completed, t)
    /\ IF fetch_html(r) = ""
       THEN task' = [task EXCEPT ![t] = "done"] /\ UNCHANGED matches
       ELSE Scanned(t, ScanTable[filtered[t]][r.body])
    /\ UNCHANGED <<fvars, mainpc, inputs, rp_by_domain, page_list, rows, gvars,
                   filtered, runpc, page_fetches, awaited>>

TaskResponse(t, r) ==
    /\ mainpc = "run" /\ task[t] = "request"
    /\ sem' = sem + 1
    /\ task_resp' = [task_resp EXCEPT ![t] = r]
    /\ completed' = Append(completed, t)
    /\ IF fetch_html(r) = ""
       THEN task' = [task EXCEPT ![t] = "done"] /\ UNCHANGED matches
       ELSE Scanned(t, ScanTable[filtered[t]][r.body])
    /\ UNCHANGED <<fvars, mainpc, inputs, rp_by_domain, page_list, rows, gvars,
                   filtered, runpc, page_fetches, awaited>>

\* run: `await fut` for the next future of as_completed
RunAwait ==
    /\ mainpc = "run" /\ runpc = "awaiting" /\ completed # <<>>
    /\ completed' = Tail(completed)
    /\ IF task[Head(completed)] = "failed"
       THEN runpc' = "raised" /\ UNCHANGED awaited
       ELSE /\ awaited' = awaited + 1
            /\ runpc' = IF awaited' = Len(filtered) THEN "returned" ELSE "awaiting"
    /\ UNCHANGED <<fvars, mainpc, inputs, rp_by_domain, page_list, rows, gvars,
                   filtered, task, task_resp, sem, matches, page_fetches>>

\* the exception leaves run and main (lines 635-636, 647-648): the session is closed,
\* asyncio.run cancels the unfinished tasks, write_results is not reached
MainCrash ==
    /\ mainpc = "run" /\ runpc = "raised"
    /\ mainpc' = "crashed"
    /\ task' = [t \in DOMAIN task |->
                  IF task[t] \in {"done", "failed"} THEN task[t] ELSE "cancelled"]
    /\ sem' = sem + Cardinality({t \in DOMAIN task : task[t] \in {"sleep", "request"}})
    /\ UNCHANGED <<fvars, inputs, rp_by_domain, page_list, rows, gvars,
                   filtered, runpc, task_resp, matches, page_fetches, completed, awaited>>

\* an external interrupt reaches main at the await it is suspended in, in Phase 1
\* (gather_pages_from_sitemaps) or in Phase 2 (`await fut` in run): the exception
\* leaves main through its finally clause (line 636), asyncio.run cancels the
\* unfinished tasks and KeyboardInterrupt ends the process (lines 646-651)
Interrupt ==
    /\ mainpc = "gather" \/ (mainpc = "run" /\ runpc = "awaiting")
    /\ mainpc' = "interrupted"
    /\ task' = [t \in DOMAIN task |->
                  IF task[t] \in {"done", "failed"} THEN task[t] ELSE "cancelled"]
    /\ sem' = sem + Cardinality({t \in DOMAIN task : task[t] \in {"sleep", "request"}})
    /\ UNCHANGED <<fvars, inputs, rp_by_domain, page_list, rows, gvars,
                   filtered, runpc, task_resp, matches, page_fetches, completed, awaited>>

\* sorted(pages)
Sorted(S) == SelectSeq(PageOrder, LAMBDA u : u \in S)

\* sorted(pages) without the slice [:MAX_MATCH_PAGES_PER_QUERY]
NotTruncated(all) == all

\* sorted(pages)[:MAX_MATCH_PAGES_PER_QUERY]
Truncated(all) ==
    SubSeq(all, 1, IF Len(all) < MAX_MATCH_PAGES_PER_QUERY
                   THEN Len(all) ELSE MAX_MATCH_PAGES_PER_QUERY)

Row(u, page_list_) ==
    [queried_url |-> u, found |-> page_list_ # <<>>,
     match_count |-> Len(page_list_), match_pages |-> page_list_]

\* pages |= matches.get(var, set()) for the variants of u
MatchedPages(u, m) == UNION {IF v \in DOMAIN m THEN m[v] ELSE {} : v \in VariantMap[u]}

\* write_results: the data rows
write_results(ins, m) ==
    [i \in DOMAIN ins |-> Row(ins[i], Truncated(Sorted(MatchedPages(ins[i], m))))]

\* MainFinish with a run that returns without awaiting its tasks
MainFinishWithoutAwait ==
    /\ mainpc = "run" /\ runpc \in {"awaiting", "returned"}
    /\ rows' = write_results(inputs, matches)
    /\ mainpc' = "done"
    /\ UNCHANGED <<fvars, inputs, rp_by_domain, page_list, gvars, pvars>>

\* run returned: main closes the scanner and writes the results (lines 636-643)
MainFinish ==
    /\ mainpc = "run" /\ runpc = "returned"
    /\ rows' = write_results(inputs, matches)
    /\ mainpc' = "done"
    /\ UNCHANGED <<fvars, inputs, rp_by_domain, page_list, gvars, pvars>>

(***************************************************************************)
(* Test mode: run_test_mode(test_url, inputs, scan_body).                  *)
(***************************************************************************)
\* the URLs given with --test-url: in scope, and out of scope with a binary extension
TestUrls == {"https://ex.com/a", "https://other.org/f.pdf"}

\* lines 536-547: the blob of the page
TestBlob(hrefs, html, scan_body) ==
    Join("\n", <<Join("\n", hrefs)>> \o (IF scan_body THEN <<html>> ELSE <<>>))

\* lines 536-551: the patterns found on the page, or raised by urljoin
TestScan(patterns, html, scan_body, ex) ==
    [raised |-> ex.raised,
     found  |-> IF ex.raised THEN {}
                ELSE find_in(patterns, TestBlob(ex.hrefs, html, scan_body))]

\* lines 557-564: the row of the input original
TestRow(original, found_patterns, test_url) ==
    Row(original, IF VariantMap[original] \cap found_patterns # {} THEN <<test_url>> ELSE <<>>)

\* session.get(test_url, allow_redirects=True) is issued
TestRequest ==
    /\ mainpc = "test"
    /\ page_fetches' = page_fetches (+) SetToBag({call[2]})
    /\ mainpc' = "test_get"
    /\ UNCHANGED <<fvars, inputs, rp_by_domain, page_list, rows, gvars, filtered, runpc, task,
                   task_resp, sem, matches, completed, awaited>>

\* lines 551-567 for the patterns found: the rows are written to test_results.csv
TestWrite(scan) ==
    IF scan.raised
    THEN mainpc' = "crashed" /\ rows' = rows
    ELSE /\ mainpc' = "test_written"
         /\ rows' = [i \in DOMAIN inputs |-> TestRow(inputs[i], scan.found, call[2])]

\* lines 525-567: the request is answered by net
TestResponse(net) ==
    /\ mainpc = "test_get"
    /\ task_resp' = <<net>>
    /\ IF net.exc \/ net.status # 200
       THEN mainpc' = "test_returned" /\ rows' = rows
       ELSE TestWrite(TestScan(AllPatterns(inputs), net.body.html, call[3],
                               JoinAll(call[2], net.body.hrefs)))
    /\ UNCHANGED <<fvars, inputs, rp_by_domain, page_list, gvars, filtered, runpc, task, sem,
                   matches, page_fetches, completed, awaited>>

(***************************************************************************)
(* Specifications.                                                         *)
(***************************************************************************)
GatherIdle ==
    /\ disc_todo = <<>> /\ candidate_sitemaps = {} /\ gpc = "idle" /\ to_process = <<>>
    /\ seen_sitemaps = {} /\ processed_count = 0 /\ pages = {} /\ sm_url = ""
    /\ resp = NoResp /\ sm_fetches = EmptyBag

\* no function is called on its own
NoCall == call = <<>> /\ ret = <<>>

\* SiteScanner.__init__
ScannerNew ==
    /\ filtered = <<>> /\ runpc = "idle" /\ task = <<>> /\ task_resp = <<>>
    /\ sem = CONCURRENCY /\ matches = [p \in AllPatterns(inputs) |-> {}]
    /\ page_fetches = EmptyBag /\ completed = <<>> /\ awaited = 0
    /\ rp_by_domain = <<>>

\* the lists gather_pages_from_sitemaps can return
PageLists == UNION {Orders(S) : S \in {T \in SUBSET PageURLs : Cardinality(T) <= MAX_PAGES}}

\* main has read the input lines and constructed the SiteScanner
Init ==
    /\ mainpc = "init"
    /\ inputs \in InputLists
    /\ page_list = <<>> /\ rows = <<>>
    /\ GatherIdle /\ ScannerNew /\ NoCall

Next ==
    \/ \E outs \in [DOMAIN DOMAINS -> InitRobotsResponses] : ScannerInit(outs)
    \/ \E pl \in PageLists : Gathered(pl)
    \/ RunStart
    \/ \E t \in TaskIds : TaskStart(t)
    \/ \E t \in TaskIds : TaskAcquire(t)
    \/ \E t \in TaskIds : TaskRequest(t)
    \/ \E t \in TaskIds, r \in PageResponses : TaskResponse(t, r)
    \/ RunAwait
    \/ MainCrash
    \/ Interrupt
    \/ MainFinish

\* the crawl from the constructed scanner on, the traversal taken by its result
Spec == Init /\ [][Next]_vars

\* main is inside gather_pages_from_sitemaps(session, DOMAINS)
InitGather ==
    /\ mainpc = "gather"
    /\ inputs = <<"ex.com/a">>
    /\ page_list = <<>> /\ rows = <<>>
    /\ disc_todo = possible_base_urls(DOMAINS[1]) /\ candidate_sitemaps = {}
    /\ gpc = "discover" /\ to_process = <<>> /\ seen_sitemaps = {} /\ processed_count = 0
    /\ pages = {} /\ sm_url = "" /\ resp = NoResp /\ sm_fetches = EmptyBag
    /\ filtered = <<>> /\ runpc = "idle" /\ task = <<>> /\ task_resp = <<>>
    /\ sem = CONCURRENCY /\ matches = [p \in AllPatterns(inputs) |-> {}]
    /\ page_fetches = EmptyBag /\ completed = <<>> /\ awaited = 0
    /\ rp_by_domain = [d \in Range(DOMAINS) |-> robots_read(NetError)]
    /\ NoCall

NextGather ==
    \/ \E net \in RobotsResponses : Discover(net)
    \/ \E order \in Orders(candidate_sitemaps) : StartTraversal(order)
    \/ Pop
    \/ \E net \in SitemapResponses : Receive(net)
    \/ Process
    \/ \E order \in Orders(pages) : Return(order)

\* Phase 1: discovery and traversal of the sitemaps
SpecGather == InitGather /\ [][NextGather]_vars

\* the functions of the module called on their own, outside a crawl
InitCalls ==
    /\ mainpc = "call"
    /\ inputs = <<>>
    /\ page_list = <<>> /\ rows = <<>>
    /\ GatherIdle /\ ScannerNew /\ NoCall

NextCalls ==
    \/ \E patterns \in SUBSET PatternStrings, text \in TextsUpTo(MaxTextLen) :
          CallFindIn(patterns, text)
    \/ \E domain \in CallDomains, nets \in [DOMAIN SCHEMES -> RobotsResponses] :
          CallDiscover(domain, nets)
    \/ \E target \in WwwInputs : CallNormalize(target)

SpecCalls == InitCalls /\ [][NextCalls]_vars

\* the responses of the whole crawl: a few per request
CrawlInitRobots ==
    {n \in InitRobotsResponses :
        n.status = 404 \/ (n.status = 200 /\ n.raw.enc = "plain" /\ Len(n.raw.text.lines) = 2)}

CrawlRobots ==
    {n \in RobotsResponses :
        n.exc \/ (n.status = 200 /\ n.raw # EmptyBytes
                   /\ n.raw.text.lines = <<"Sitemap: https://ex.com/s2.xml.gz">>)}

CrawlSitemaps ==
    {n \in SitemapResponses :
        n.exc \/ (n.status = 200 /\ n.raw # EmptyBytes /\ n.raw.enc = "plain"
                   /\ n.raw.text.kind = "xml" /\ n.raw.text.root = "urlset"
                   /\ n.raw.text.locs \in {<<"https://ex.com/a", "https://ex.com/c">>,
                                            <<"https://w.ex.com/b">>})}

CrawlPages == {r \in PageResponses : r.exc \/ (r.status = 200 /\ r.body.hrefs = <<"/a">>)}

InitCrawl ==
    /\ mainpc = "init"
    /\ inputs = <<"ex.com/a">>
    /\ page_list = <<>> /\ rows = <<>>
    /\ disc_todo = possible_base_urls(DOMAINS[1]) /\ candidate_sitemaps = {}
    /\ gpc = "discover" /\ to_process = <<>> /\ seen_sitemaps = {} /\ processed_count = 0
    /\ pages = {} /\ sm_url = "" /\ resp = NoResp /\ sm_fetches = EmptyBag
    /\ ScannerNew /\ NoCall

NextCrawl ==
    \/ \E outs \in [DOMAIN DOMAINS -> CrawlInitRobots] : ScannerInit(outs)
    \/ \E net \in CrawlRobots : Discover(net)
    \/ \E order \in Orders(candidate_sitemaps) : StartTraversal(order)
    \/ Pop
    \/ \E net \in CrawlSitemaps : Receive(net)
    \/ Process
    \/ \E order \in Orders(pages) : Return(order)
    \/ RunStart
    \/ \E t \in TaskIds : TaskStart(t)
    \/ \E t \in TaskIds : TaskAcquire(t)
    \/ \E t \in TaskIds : TaskRequest(t)
    \/ \E t \in TaskIds, r \in CrawlPages : TaskResponse(t, r)
    \/ RunAwait
    \/ MainFinish

\* the whole crawl: init, Phase 1 step by step, Phase 2, the results
SpecCrawl == InitCrawl /\ [][NextCrawl]_vars

\* a sitemap graph with cycles and with more distinct sitemap URLs than SITEMAP_CAP:
\* indexes that list themselves and one another, a urlset that names a further sitemap
GraphSitemaps ==
    {n \in SitemapResponses :
        n.exc \/ (n.status = 200 /\ n.raw # EmptyBytes /\ n.raw.enc = "plain"
                   /\ n.raw.text.kind = "xml"
                   /\ n.raw.text.locs \in
                        {<<"https://ex.com/sitemap.xml", "https://ex.com/s2.xml.gz">>,
                         <<"https://ex.com/a", "https://ex.com/sitemap.xml">>,
                         <<"https://w.ex.com/b", "https://ex.com/sitemap-info">>,
                         <<"https://ex.com/a", "https://ex.com/c">>})}

NextGraph ==
    \/ \E net \in CrawlRobots : Discover(net)
    \/ \E order \in Orders(candidate_sitemaps) : StartTraversal(order)
    \/ Pop
    \/ \E net \in GraphSitemaps : Receive(net)
    \/ Process
    \/ \E order \in Orders(pages) : Return(order)

\* Phase 1 over that graph when every fetch of the loop returns: the coroutine is the
\* only one of Phase 1, so a step of the loop that is possible is taken
SpecGatherFair ==
    /\ InitGather /\ [][NextGraph]_vars
    /\ WF_vars(Pop)
    /\ WF_vars(\E net \in GraphSitemaps : Receive(net))
    /\ WF_vars(Process)
    /\ WF_vars(\E order \in Orders(pages) : Return(order))

\* main is about to call scanner.run(page_list) with more pages than CONCURRENCY
InitRun ==
    /\ mainpc = "run"
    /\ inputs = <<"ex.com/a">>
    /\ page_list = PageOrder /\ rows = <<>>
    /\ GatherIdle /\ NoCall
    /\ filtered = <<>> /\ runpc = "idle" /\ task = <<>> /\ task_resp = <<>>
    /\ sem = CONCURRENCY /\ matches = [p \in AllPatterns(inputs) |-> {}]
    /\ page_fetches = EmptyBag /\ completed = <<>> /\ awaited = 0
    /\ rp_by_domain \in [Range(DOMAINS) -> {robots_read(n) : n \in CrawlInitRobots}]

NextRun ==
    \/ RunStart
    \/ \E t \in TaskIds : TaskStart(t)
    \/ \E t \in TaskIds : TaskAcquire(t)
    \/ \E t \in TaskIds : TaskRequest(t)
    \/ \E t \in TaskIds, r \in PageResponses : TaskResponse(t, r)
    \/ RunAwait
    \/ MainCrash
    \/ MainFinish

\* the step TaskStart(t) as the event loop sees it: the created task whose turn it is
\* runs up to its first suspension, whatever allowed() answers
TaskStarted(t) ==
    /\ mainpc = "run" /\ task[t] = "created"
    /\ \A j \in 1..(t - 1) : task[j] # "created"
    /\ \E pc \in {"done", "sleep", "acquire"} : task' = [task EXCEPT ![t] = pc]
    /\ completed' \in {completed, Append(completed, t)}
    /\ sem' \in {sem, sem - 1}
    /\ UNCHANGED <<fvars, mainpc, inputs, rp_by_domain, page_list, rows, gvars,
                   filtered, runpc, task_resp, matches, page_fetches, awaited>>

\* Phase 2 when every request returns or times out and the event loop is fair: a task
\* or main that can take its next step takes it
SpecRunFair ==
    /\ InitRun /\ [][NextRun]_vars
    /\ \A t \in 1..Len(PageOrder) :
          /\ WF_vars(t \in TaskIds /\ TaskStarted(t))
          /\ WF_vars(t \in TaskIds /\ TaskAcquire(t))
          /\ WF_vars(t \in TaskIds /\ TaskRequest(t))
          /\ WF_vars(t \in TaskIds /\ \E r \in PageResponses : TaskResponse(t, r))
    /\ WF_vars(RunAwait)
    /\ WF_vars(MainCrash)
    /\ WF_vars(MainFinish)

\* main with --test-url: run_test_mode(args.test_url, inputs, SCAN_HTML_BODY_TOO)
InitTest ==
    /\ mainpc = "test"
    /\ inputs \in InputLists
    /\ page_list = <<>> /\ rows = <<>>
    /\ GatherIdle /\ ScannerNew
    /\ call \in {<<"run_test_mode", test_url, scan_body>> :
                    test_url \in TestUrls, scan_body \in BOOLEAN}
    /\ ret = <<>>

NextTest ==
    \/ TestRequest
    \/ \E net \in PageResponses : TestResponse(net)

SpecTest == InitTest /\ [][NextTest]_vars

(***************************************************************************)
(* Properties of the traversal (SpecGather).                               *)
(***************************************************************************)
\* C1: during the traversal no SitemapURL is fetched more than once, whether it is
\* listed by several parents, lists itself or an ancestor, or was pushed on the
\* worklist several times before its first pop
C1_NoSitemapFetchedTwice ==
    \A u \in BagToSet(sm_fetches) : CopiesIn(u, sm_fetches) = 1

\* the loop is about to pop a URL that has been fetched before
C1_Witness ==
    /\ gpc = "head" /\ LoopCondition
    /\ to_process[Len(to_process)] \in seen_sitemaps
    /\ BagIn(to_process[Len(to_process)], sm_fetches)

C2_CapReached == processed_count >= SITEMAP_CAP \/ Cardinality(pages) >= MAX_PAGES

\* C2: the number of documents visited never exceeds SITEMAP_CAP and the number of
\* pages collected never exceeds MAX_PAGES; once a cap is reached no further document
\* is fetched, and no page is added after the document that was being processed
C2_CapsAreHardLimits ==
    /\ [](/\ processed_count <= SITEMAP_CAP
          /\ BagCardinality(sm_fetches) <= SITEMAP_CAP
          /\ Cardinality(pages) <= MAX_PAGES)
    /\ [][/\ C2_CapReached => sm_fetches' = sm_fetches
          /\ C2_CapReached /\ gpc # "got" => pages' = pages]_vars

\* the traversal returned at the page cap with entries left on the worklist
C2_Witness ==
    /\ gpc = "returned" /\ to_process # <<>>
    /\ Cardinality(pages) = MAX_PAGES

\* the fetch failed, the status is not 200, the body is empty, the text does not start
\* with "<", or the text is not well-formed XML
C8_Failing(url, net) ==
    \/ net.exc
    \/ net.status # 200
    \/ net.raw = EmptyBytes
    \/ net.raw.enc = "truncgz"
    \/ net.raw.enc = "gzip" /\ ~IsGzFile(url, net)
    \/ net.raw.text.kind # "xml"

\* C8: a document whose fetch fails, whose status is not 200, whose body is empty,
\* does not decode to text starting with "<" or does not parse leaves the worklist and
\* the page set unchanged; it stays marked visited and counted, and the loop goes on
C8_FailedDocumentContributesNothing ==
    [][gpc = "got" /\ C8_Failing(sm_url, resp) =>
          /\ to_process' = to_process /\ pages' = pages
          /\ sm_url \in seen_sitemaps /\ seen_sitemaps' = seen_sitemaps
          /\ processed_count >= 1 /\ processed_count' = processed_count
          /\ gpc' = "head"]_vars

\* a failing document has been received while pages are collected and work is left
C8_Witness ==
    /\ gpc = "got" /\ C8_Failing(sm_url, resp)
    /\ to_process # <<>> /\ pages # {}

\* the response is indicated as gzip and gzip.decompress(raw) raises
C9_DecompressionFails(url, net) ==
    /\ ~net.exc /\ net.status = 200
    /\ net.raw.enc # "gzip" /\ net.raw # EmptyBytes
    /\ IsGzFile(url, net)

C9_AsReceived ==
    [t \in {n.raw.text : n \in SitemapResponses} |->
        Parsed(parse_sitemap_xml(t))]

C3_MatchSetsCapped ==
    /\ [](\A p \in DOMAIN matches : Cardinality(matches[p]) <= MAX_MATCH_PAGES_PER_QUERY)
    /\ [][/\ \A p \in DOMAIN matches :
                Cardinality(matches[p]) >= MAX_MATCH_PAGES_PER_QUERY
                    => matches'[p] = matches[p]
          /\ \A t \in DOMAIN task :
                task[t] = "request" /\ task'[t] = "failed"
                    => \E i \in DOMAIN task_resp'[t].body.hrefs :
                          UrlJoinRaises(task_resp'[t].body.hrefs[i])]_vars

\* a task has finished scanning a page that holds a pattern whose entry was at its
\* cap with another page
C3_Witness ==
    \E p \in DOMAIN matches, t \in DOMAIN task :
        /\ task[t] = "done" /\ ~task_resp[t].exc /\ task_resp[t].status = 200
        /\ Contains(task_resp[t].body.html, p)
        /\ filtered[t] \notin matches[p]
        /\ Cardinality(matches[p]) = MAX_MATCH_PAGES_PER_QUERY

\* the tasks inside the politeness delay or the HTTP request
C4_Active == {t \in DOMAIN task : task[t] \in {"sleep", "request"}}

\* C4: at every moment at most CONCURRENCY tasks are inside their politeness delay
\* or their HTTP request
C4_AtMostConcurrencyActive == Cardinality(C4_Active) <= CONCURRENCY

\* more tasks than permits were created, CONCURRENCY of them are active, one waits
C4_Witness ==
    /\ Cardinality(DOMAIN task) > CONCURRENCY
    /\ Cardinality(C4_Active) = CONCURRENCY
    /\ \E t \in DOMAIN task : task[t] = "acquire"

\* scope, extension, domains and robots path of each page URL
C5_Parts(p) ==
    [doms |-> {d \in Range(DOMAINS) : HostIn(Lower(p.netloc), <<d>>)},
     binary |-> HasBinaryExt(Lower(p.path)),
     path |-> IF p.path = "" THEN "/" ELSE p.path]

C5_Url == [u \in PageURLs |-> C5_Parts(urlparse(u))]

\* the ruleset read for the domain of u disallows u
C5_RobotsDisallows(u) ==
    \E d \in C5_Url[u].doms \cap DOMAIN rp_by_domain :
        \/ rp_by_domain[d].disallow_all
        \/ /\ rp_by_domain[d].read /\ ~rp_by_domain[d].allow_all
           /\ \E x \in rp_by_domain[d].disallow : StartsWith(C5_Url[u].path, x)

C5_Excluded(u) ==
    C5_Url[u].doms = {} \/ C5_Url[u].binary \/ C5_RobotsDisallows(u)

C6_AllowByDefaultOnLoadFailure ==
    \A d \in DOMAIN rp_by_domain :
        rp_by_domain[d].load = "failed" =>
            \A u \in PageURLs :
                HostIn(Lower(urlparse(u).netloc), <<d>>) /\ ~is_binary_url(u) => allowed(u)

C10_Matched(i) == UNION {matches[v] : v \in VariantMap[inputs[i]] \cap DOMAIN matches}

C10_OneRowPerInput ==
    /\ Len(rows) = Len(inputs)
    /\ \A i \in DOMAIN inputs : rows[i].queried_url = inputs[i]

\* C10 as stated: one row per input line in input order, match_count equal to the
\* number of pages matched through any variant and at most MAX_MATCH_PAGES_PER_QUERY
C10_MatchCountIsUnionSize ==
    mainpc = "done" =>
        /\ C10_OneRowPerInput
        /\ \A i \in DOMAIN inputs :
              /\ rows[i].match_count = Cardinality(C10_Matched(i))
              /\ rows[i].match_count <= MAX_MATCH_PAGES_PER_QUERY

\* C10 amended: one row per input line in input order, match_count equal to the
\* number of pages matched through any variant, cut at MAX_MATCH_PAGES_PER_QUERY
C10_MatchCountIsCappedUnionSize ==
    mainpc = "done" =>
        /\ C10_OneRowPerInput
        /\ \A i \in DOMAIN inputs :
              rows[i].match_count =
                  IF Cardinality(C10_Matched(i)) < MAX_MATCH_PAGES_PER_QUERY
                  THEN Cardinality(C10_Matched(i)) ELSE MAX_MATCH_PAGES_PER_QUERY

\* the results were written for two inputs, one of them matched on more pages than
\* the cap through different variants
C10_Witness ==
    /\ mainpc = "done" /\ Len(inputs) = 2
    /\ \E i \in DOMAIN inputs : Cardinality(C10_Matched(i)) > MAX_MATCH_PAGES_PER_QUERY

\* the matches after the scan of the page of task k is added to m
C11_After(m, k) ==
    IF fetch_html(task_resp[k]) = "" THEN m
    ELSE AddMatches(m, ScanTable[filtered[k]][task_resp[k].body].found \cap DOMAIN m,
                    filtered[k])

\* the matches when the tasks k, k+1, ... complete in the order of the page list
RECURSIVE C11_InListOrder(_, _)
C11_InListOrder(m, k) ==
    IF k > Len(filtered) THEN m ELSE C11_InListOrder(C11_After(m, k), k + 1)

\* C11: for the same page list and the same page contents the final MatchSet is the
\* same for every order in which the tasks complete: it is the one obtained when
\* they complete in the order of the page list
C11_FinalMatchesIndependentOfOrder ==
    runpc = "returned" =>
        matches = C11_InListOrder([p \in DOMAIN matches |-> {}], 1)

\* allowed(u) read from the parts of u and the ruleset of its domain
C23_Allowed(u) ==
    /\ C5_Url[u].doms # {} /\ ~C5_Url[u].binary
    /\ \A d \in C5_Url[u].doms \cap DOMAIN rp_by_domain :
          /\ ~rp_by_domain[d].disallow_all
          /\ \/ rp_by_domain[d].allow_all
             \/ /\ rp_by_domain[d].read
                /\ \A x \in rp_by_domain[d].disallow : ~StartsWith(C5_Url[u].path, x)

\* the patterns that occur in the scan blob of page u when its body is b
C23_Occurring(ex, html) ==
    IF ex.raised THEN {}
    ELSE {p \in UNION {VariantMap[i] : i \in InputStrings} :
             Contains(Join("\n", Blobs(ex.hrefs, html)), p)}

C23_InBlob == [u \in PageURLs |-> [b \in PageBodies |->
                  C23_Occurring(extract_hrefs(u, b), b.html)]]

\* page u was allowed, requested and answered with status 200 and a body that is not
\* empty and whose scan blob holds p
C23_Sound(p, u) ==
    /\ C23_Allowed(u)
    /\ u \in BagToSet(page_fetches)
    /\ \E t \in DOMAIN filtered :
          /\ filtered[t] = u
          /\ ~task_resp[t].exc /\ task_resp[t].status = 200
          /\ task_resp[t].body.html # ""
          /\ p \in C23_InBlob[u][task_resp[t].body]

\* C23: a page is in matches[p] only if it passed allowed, was fetched with status 200
\* and a non-empty body and p occurs in its scan blob; the keys of matches are always
\* the patterns given at construction; no step removes a page from any matches[p]
C23_MatchSetSoundAndGrowing ==
    /\ [](/\ DOMAIN matches = AllPatterns(inputs)
          /\ \A p \in DOMAIN matches : \A u \in matches[p] : C23_Sound(p, u))
    /\ [][\A p \in DOMAIN matches : matches[p] \subseteq matches'[p]]_vars

\* a page is recorded for a pattern while another page that answered 404, and one that
\* the ruleset disallows, are not
C23_Witness ==
    /\ \E p \in DOMAIN matches : matches[p] # {}
    /\ \E t \in DOMAIN task :
          /\ task[t] = "done" /\ task_resp[t].status = 404
          /\ \A p \in DOMAIN matches : filtered[t] \notin matches[p]
    /\ \E u \in Range(page_list) : ~C23_Allowed(u)

\* the page-scan tasks that ran to the end of scan_page
C22_Completed == {t \in DOMAIN task : task[t] \in {"done", "failed"}}

\* C22: when every request returns and the scheduler is fair, every created page-scan
\* task eventually completes, and once all have completed every permit of the
\* semaphore is free
C22_TasksCompleteAndPermitsFree ==
    /\ (runpc = "awaiting") ~> (C22_Completed = DOMAIN task)
    /\ [](runpc # "idle" /\ C22_Completed = DOMAIN task => sem = CONCURRENCY)

\* C21: when every fetch returns the traversal loop, once started, ends; it visits every distinct sitemap
\* URL at most once and never more than SITEMAP_CAP documents
C21_TraversalTerminates ==
    /\ (gpc = "head") ~> (gpc = "returned")
    /\ [](/\ BagCardinality(sm_fetches) = Cardinality(seen_sitemaps)
          /\ BagCardinality(sm_fetches) <= SITEMAP_CAP)

\* the traversal ended below both caps with its worklist empty, after two documents
C21_Witness ==
    /\ gpc = "returned"
    /\ to_process = <<>>
    /\ processed_count = 2
    /\ seen_sitemaps = {"https://ex.com/sitemap.xml", "https://ex.com/s2.xml.gz"}
    /\ Cardinality(pages) < MAX_PAGES

\* every <loc> value of the documents served, as listed and without its fragment
C20_Locs == UNION {Range(n.raw.text.locs) : n \in SitemapResponses}

\* the host of an absolute URL: what stands between :// and the next /, ? or #
C20_Host(rest) == Lower(UpTo(rest, {"/", "?", "#"}))

C20_HostInScope(host) ==
    \E i \in DOMAIN DOMAINS : host = DOMAINS[i] \/ EndsWith(host, "." \o DOMAINS[i])

\* the URL up to its query and fragment, in lower case
C20_Path(u) == Lower(UpTo(u, {"?", "#"}))

C20_PageOk(u) ==
    /\ Contains(u, "://")
    /\ C20_HostInScope(C20_Host(SubSeq(u, Find(u, "://") + 3, Len(u))))
    /\ \A ext \in BINARY_EXTS : ~EndsWith(C20_Path(u), ext)
    /\ ~Contains(u, "#")

\* C20_PageOk, computed once per URL
C20_Ok == [u \in C20_Locs \cup {urldefrag(v) : v \in C20_Locs} |-> C20_PageOk(u)]

C13_InText(text) ==
    IF text.kind # "xml" \/ Lower(text.root) = "sitemapindex" THEN {}
    ELSE {Strip(l) : l \in {x \in Range(text.locs) : Contains(x, "sitemap")}}

C13_InFetched(got) ==
    IF got.status # 200 \/ got.raw = EmptyBytes THEN {} ELSE C13_InText(decode_text(got.raw))

\* per worklist URL and response: the <loc> values holding "sitemap" of the urlset parsed
C13_Locs ==
    [u \in SitemapURLs |-> [n \in SitemapResponses |-> C13_InFetched(fetch_text_bytes(u, n))]]

\* what the loop body appended to the worklist
C13_Pushed == Range(SubSeq(to_process', Len(to_process) + 1, Len(to_process')))

\* u was returned as a nested sitemap URL and the page set gained page URLs only
C13_Classified(u, c) ==
    /\ u \in Range(c[1])
    /\ pages' \subseteq pages \cup Range(c[2])
    /\ u \notin Range(c[2])

\* C13 as stated: every <loc> of a urlset that holds "sitemap" is returned as a nested
\* sitemap URL, is pushed on the worklist and is not added to the page set
C13_SitemapLocAlwaysPushed ==
    [][Process =>
        \A u \in C13_Locs[sm_url][resp] :
            C13_Classified(u, ContributionTable[sm_url][resp]) /\ u \in C13_Pushed]_vars

\* C13, amended: every <loc> of a urlset that holds "sitemap" is returned as a nested
\* sitemap URL and is not added to the page set; it is pushed on the worklist unless
\* it is in seen_sitemaps already
C13_SitemapLocPushedUnlessSeen ==
    [][Process =>
        \A u \in C13_Locs[sm_url][resp] :
            /\ C13_Classified(u, ContributionTable[sm_url][resp])
            /\ u \notin seen_sitemaps => u \in C13_Pushed]_vars

\* a urlset with a <loc> holding "sitemap" and a page URL was processed: the worklist
\* holds the former, the page set the latter
C13_Witness ==
    /\ gpc = "head"
    /\ "https://ex.com/sitemap-info" \in Range(to_process)
    /\ "https://ex.com/sitemap-info" \notin seen_sitemaps
    /\ "https://w.ex.com/b" \in pages
    /\ "https://ex.com/sitemap-info" \notin pages

\* C17: once an interrupt has reached main no page request is started and the CSV
\* is not written, and write_results runs only when every page-scan task has completed
C17_InterruptStopsWorkAndOutput ==
    /\ [](mainpc = "interrupted" => rows = <<>>)
    /\ [][mainpc = "interrupted" =>
            page_fetches' = page_fetches /\ rows' = rows /\ mainpc' = "interrupted"]_vars
    /\ [][mainpc # "done" /\ mainpc' = "done" =>
            \A t \in DOMAIN task : task[t] = "done"]_vars

\* the interrupt came in Phase 2, after a page was requested and scanned and while
\* another task was unfinished
C17_Witness ==
    /\ mainpc = "interrupted"
    /\ \E t \in DOMAIN task : task[t] = "cancelled"
    /\ \E t \in DOMAIN task : task[t] = "done" /\ fetch_html(task_resp[t]) # ""

\* the tasks inside `async with self.sem`
C19_Holders == {t \in DOMAIN task : task[t] \in {"sleep", "request"}}

\* C19: a task issues its page request only while it holds a permit and after its
\* delay, it enters the delay only by taking a free permit, and every permit taken is
\* given back whatever the outcome of the request
C19_PermitDelayRequestRelease ==
    /\ [](sem >= 0 /\ sem + Cardinality(C19_Holders) = CONCURRENCY)
    /\ [][\A t \in DOMAIN task :
            /\ task[t] # "sleep" /\ task'[t] = "sleep" => sem > 0 /\ sem' = sem - 1
            /\ task[t] # "request" /\ task'[t] = "request" =>
                  /\ task[t] = "sleep"
                  /\ page_fetches' = page_fetches (+) SetToBag({filtered[t]})
            /\ task[t] = "request" /\ task'[t] # "request" => sem' > sem]_vars
    /\ [][page_fetches' # page_fetches =>
            \E t \in DOMAIN task : task[t] = "sleep" /\ task'[t] = "request"]_vars

\* requests ended with an exception, with a status other than 200 and with a page,
\* and all permits are back
C19_Witness ==
    /\ sem = CONCURRENCY
    /\ \E t \in DOMAIN task : task[t] = "done" /\ task_resp[t].exc
    /\ \E t \in DOMAIN task : task[t] = "done" /\ task_resp[t].status = 404
    /\ \E t \in DOMAIN task : task[t] = "done" /\ fetch_html(task_resp[t]) # ""

(***************************************************************************)
(* Properties of the whole crawl (SpecCrawl).                              *)
(***************************************************************************)
\* C18: a page request is issued only after the traversal has returned, no discovery
\* or sitemap fetch is issued once a page-scan task exists, and rp_by_domain does
\* not change after init
C18_PhasesDoNotOverlap ==
    /\ [][page_fetches' # page_fetches => gpc = "returned"]_vars
    /\ [][sm_fetches' # sm_fetches \/ disc_todo' # disc_todo =>
            task = <<>> /\ task' = <<>> /\ gpc' # "returned"]_vars
    /\ [][mainpc # "init" => rp_by_domain' = rp_by_domain]_vars

\* a crawl that fetched two sitemap documents, then requested pages, and ended
C18_Witness ==
    /\ mainpc = "done"
    /\ BagCardinality(sm_fetches) >= 2
    /\ BagCardinality(page_fetches) >= 2
    /\ \E d \in DOMAIN rp_by_domain : rp_by_domain[d].disallow # {}

(***************************************************************************)
(* Properties of the functions called on their own (SpecCalls).            *)
(***************************************************************************)
\* C12: for every pattern set and every text find_in returns the same set in the
\* automaton mode and in the fallback mode: the patterns that occur in the text
C12_ModesAgree ==
    call # <<>> /\ call[1] = "find_in" =>
        /\ ret.aho = ret.fallback
        /\ ret.aho = {p \in call[2] : Contains(call[3], p)}

\* two patterns were found of which one is a suffix, and not a prefix, of the other
C12_Witness ==
    /\ call # <<>> /\ call[1] = "find_in"
    /\ \E p, q \in ret.aho : p # q /\ EndsWith(q, p) /\ ~StartsWith(q, p)

\* the lines of the robots.txt document a successful response carries
C14_Lines(net) ==
    IF net.exc \/ net.status # 200 \/ net.raw = EmptyBytes THEN <<>> ELSE net.raw.text.lines

\* the URL of a line of the form `Sitemap: <url>`, the keyword in any letter case
C14_Named(line) ==
    IF Len(line) > 8 /\ Lower(SubSeq(line, 1, 8)) = "sitemap:"
    THEN {Strip(SubSeq(line, 9, Len(line)))} \ {""}
    ELSE {}

\* C14: whatever the robots.txt requests return, discover_sitemap_urls(D) contains
\* <scheme>://D/sitemap.xml for every configured scheme and the URL of every
\* `Sitemap: <url>` line of a robots.txt received, whatever the case of the keyword
C14_DefaultsAndNamedSitemaps ==
    call # <<>> /\ call[1] = "discover_sitemap_urls" =>
        \A i \in DOMAIN SCHEMES :
            /\ (SCHEMES[i] \o "://" \o call[2] \o "/sitemap.xml") \in ret
            /\ \A line \in Range(C14_Lines(call[3][i])) : C14_Named(line) \subseteq ret

\* a robots.txt with the keyword in capitals and in mixed case was read
C14_Witness ==
    /\ call # <<>> /\ call[1] = "discover_sitemap_urls"
    /\ \E line \in Range(C14_Lines(call[3][1])) : StartsWith(line, "SITEMAP:")
    /\ \E line \in Range(C14_Lines(call[3][1])) : StartsWith(line, "Sitemap:")
    /\ Cardinality(ret) = 3

\* s up to its first "#"
C15_NoFragment(s) == SubSeq(s, 1, Find(s, "#") - 1)

\* s after its scheme prefix
C15_NoScheme(s) == SubSeq(s, Find(s, "://") + 3, Len(s))

\* the forms named by C15, of the trimmed input s and its fragment-stripped form d
\* s after its leading www.
C15_NoWww(s) == SubSeq(s, 5, Len(s))

C15_Named(s, d) == {s, d, C15_NoScheme(d), C15_NoWww(C15_NoScheme(d))}

C15_Forms(s) == C15_Named(s, C15_NoFragment(html_unescape(s)))

C16_Ended == mainpc \in {"test_written", "test_returned", "crashed"}

\* the scan blob of the page received
C16_Blob ==
    TestBlob(JoinAll(call[2], task_resp[1].body.hrefs).hrefs, task_resp[1].body.html, call[3])

C16_RowOf(i) ==
    /\ rows[i].queried_url = inputs[i]
    /\ rows[i].found <=> \E v \in normalize_variants(inputs[i]) : Contains(C16_Blob, v)
    /\ rows[i].match_count = (IF rows[i].found THEN 1 ELSE 0)

\* C16: in test mode exactly one page request is issued, for the given URL, and when
\* the run has ended the output holds one row per input, found exactly if a variant
\* of the input occurs in the scan blob of the page, with match_count 0 or 1
C16_OneRequestOneRowPerInput ==
    /\ page_fetches = (IF mainpc = "test" THEN EmptyBag ELSE SetToBag({call[2]}))
    /\ C16_Ended => /\ DOMAIN rows = DOMAIN inputs
                    /\ \A i \in DOMAIN inputs : C16_RowOf(i)

====
